---- MODULE Spec2Model ----
(***************************************************************************)
(* A model of the JAFS multi-agent framework: the task-mode classifier     *)
(* (jafs.py), the tool-call extraction of the Ollama model adapter         *)
(* (ollama_model.py), and the configuration, agent registry and task       *)
(* history of the orchestrator (orchestrator.py).                          *)
(*                                                                         *)
(* Texts are TLA+ strings handled character by character (Len, SubSeq and  *)
(* \o on strings), so that split, strip, replace and the regular           *)
(* expression search are computed as Python computes them.                 *)
(***************************************************************************)
EXTENDS Integers, Sequences, FiniteSets, TLC

VARIABLES
    task,            \* classifier: the task text given to detect_task_type
    detected,        \* classifier: the mode returned, "unset" before the call
    earlier,         \* classifier: one earlier call, kept for comparison
    response_text,   \* extractor: the completion returned by generate
    extraction,      \* extractor: what generate_with_tools returned
    extracted,       \* extractor: how extract_json ended
    default,         \* _merge_configs: the default mapping
    override,        \* _merge_configs: the override mapping
    merged,          \* _merge_configs: the returned mapping
    source,          \* _load_config: what is found at config_path
    config,          \* orchestrator: self.config
    agents,          \* orchestrator: self.agents (name -> agent)
    primary_agent,   \* orchestrator: self.primary_agent
    last_result,     \* orchestrator: self.last_result
    task_history,    \* orchestrator: self.task_history
    now,             \* the last value read from time.time()
    ret,             \* the last call on the orchestrator and how it ended
    run,             \* agent: the run of execute, its position in the loop
    parameters,      \* tool: the parameters given to DirectResponseTool._execute
    tool_result,     \* tool: how _execute ended
    args,            \* front end: the parsed command line of jafs.py
    cmd,             \* front end: the command jafs.py runs, <<>> before
    started,         \* front end: what jafs.main made of that command
    http             \* model adapter: what the HTTP call of generate does

vars == <<task, detected, earlier, response_text, extraction, extracted, default, override, merged,
          source, config, agents, primary_agent, last_result, task_history,
          now, ret, run, parameters, tool_result, args, cmd, started, http>>

classifierVars == <<task, detected, earlier>>
extractorVars == <<response_text, extraction, extracted>>
mergeVars == <<default, override, merged>>
configVars == <<source, config>>
orchestratorVars == <<agents, primary_agent, last_result, task_history, now, ret>>
agentVars == <<run>>
toolVars == <<parameters, tool_result>>
frontVars == <<args, cmd, started>>
httpVars == <<http>>

(***************************************************************************)
(* Python str operations, character by character.                          *)
(***************************************************************************)

\* s[i], 1-based; "" outside the string.
CharAt(s, i) == IF i >= 1 /\ i <= Len(s) THEN SubSeq(s, i, i) ELSE ""

UpperLetters == "ABCDEFGHIJKLMNOPQRSTUVWXYZ"
LowerLetters == "abcdefghijklmnopqrstuvwxyz"
Digits == "0123456789"

CharsOf(s) == {SubSeq(s, i, i) : i \in 1..Len(s)}

UpperChars == CharsOf(UpperLetters)

\* The characters the regular expression class \w matches (ASCII).
WordChars == UpperChars \cup CharsOf(LowerLetters) \cup CharsOf(Digits) \cup {"_"}

\* The characters str.strip() removes.
Whitespace == {" ", "\n", "\t", "\r"}

LowerChar(c) ==
    IF c \in UpperChars
    THEN LET i == CHOOSE j \in 1..Len(UpperLetters) : SubSeq(UpperLetters, j, j) = c
         IN SubSeq(LowerLetters, i, i)
    ELSE c

\* The least element of a non-empty set of numbers.
Min(S) == CHOOSE p \in S : \A q \in S : p <= q

\* s[lo..hi] in lower case, by halves (which keeps the evaluation shallow).
RECURSIVE LowerRange(_, _, _)
LowerRange(s, lo, hi) ==
    IF lo > hi THEN ""
    ELSE IF lo = hi THEN LowerChar(SubSeq(s, lo, lo))
    ELSE LET mid == (lo + hi) \div 2
         IN LowerRange(s, lo, mid) \o LowerRange(s, mid + 1, hi)

\* str.lower()
Lower(s) == LowerRange(s, 1, Len(s))

\* Whether pat occurs in s starting at position i.
OccursAt(s, pat, i) ==
    /\ i >= 1
    /\ i + Len(pat) - 1 <= Len(s)
    /\ SubSeq(s, i, i + Len(pat) - 1) = pat

(***************************************************************************)
(* The task classifier: detect_task_type of jafs.py.                       *)
(***************************************************************************)

research_keywords ==
    <<"research", "find", "search", "look up", "investigate",
      "analyze", "study", "explore", "learn about">>

calc_keywords ==
    <<"calculate", "compute", "solve", "evaluate", "what is",
      "how much", "add", "subtract", "multiply", "divide">>

creative_keywords ==
    <<"create", "generate", "write", "compose", "design",
      "develop", "make", "build", "draft">>

\* A pattern without \b: every gap passes.
WordBoundaryPlain(s, p) == TRUE

\* The regular expression assertion \b at the gap before position p of s:
\* exactly one of the characters around the gap is a word character.
WordBoundary(s, p) == (CharAt(s, p - 1) \in WordChars) # (CharAt(s, p) \in WordChars)

\* re.search(r'\b' + keyword + r'\b', s): the keywords hold letters and
\* spaces only, so the pattern matches the keyword literally.
ReSearch(keyword, s) ==
    \E i \in 1..Len(s) :
        /\ OccursAt(s, keyword, i)
        /\ WordBoundary(s, i)
        /\ WordBoundary(s, i + Len(keyword))

\* One "for keyword in keywords: if re.search(...): ...; break" loop: whether
\* its body runs.
AnyKeyword(keywords, text) ==
    LET lowered == Lower(text)
    IN \E k \in 1..Len(keywords) : ReSearch(keywords[k], lowered)

\* The three loops with the calculation check moved last.
detect_task_type_calc_last(text) ==
    LET m0 == "auto"
        m1 == IF AnyKeyword(research_keywords, text) THEN "multi" ELSE m0
        m2 == IF AnyKeyword(creative_keywords, text) THEN "multi" ELSE m1
        m3 == IF AnyKeyword(calc_keywords, text) THEN "single" ELSE m2
    IN m3

\* The three loops with mode kept from the call before, as a global would be.
detect_task_type_sticky(text) ==
    LET m0 == IF detected = "unset" THEN "auto" ELSE detected
        m1 == IF AnyKeyword(research_keywords, text) THEN "multi" ELSE m0
        m2 == IF AnyKeyword(calc_keywords, text) THEN "single" ELSE m1
        m3 == IF AnyKeyword(creative_keywords, text) THEN "multi" ELSE m2
    IN m3

\* mode starts as "auto" and is overwritten by each loop that finds a keyword.
detect_task_type(text) ==
    LET m0 == "auto"
        m1 == IF AnyKeyword(research_keywords, text) THEN "multi" ELSE m0
        m2 == IF AnyKeyword(calc_keywords, text) THEN "single" ELSE m1
        m3 == IF AnyKeyword(creative_keywords, text) THEN "multi" ELSE m2
    IN m3

\* The task texts: up to MaxPieces pieces, one after the other.
MaxPieces == 3

Pieces ==
    {"research ", "calculate ", "write ", "Add", "what is", "look up",
     "_", "calculate 2 + 2", "write a poem about autumn"}

RECURSIVE TextsOf(_)
TextsOf(n) ==
    IF n = 0 THEN {""}
    ELSE {p \o t : p \in Pieces, t \in TextsOf(n - 1)}

TaskTexts == UNION {TextsOf(n) : n \in 1..MaxPieces}

NoEarlier == [task |-> "", mode |-> "unset"]

ClassifierIdle == task = "" /\ detected = "unset" /\ earlier = NoEarlier

ClassifierInit == task \in TaskTexts /\ detected = "unset" /\ earlier = NoEarlier

\* A call of detect_task_type(task).
DetectTaskType ==
    /\ detected = "unset"
    /\ detected' = detect_task_type(task)
    /\ UNCHANGED <<task, earlier>>

\* The task texts of a run of several calls.
ReTexts == {""} \cup TextsOf(1)

\* One more call, detect_task_type(text), in a process that may have made
\* calls before; earlier keeps the call before this one, or what it held.
Classify(text) ==
    /\ task' = text
    /\ detected' = detect_task_type(text)
    /\ earlier' \in {earlier} \cup
                    (IF detected = "unset" THEN {}
                     ELSE {[task |-> task, mode |-> detected]})
    /\ UNCHANGED <<extractorVars, mergeVars, configVars, orchestratorVars, agentVars, toolVars, frontVars, httpVars>>

ReclassifyNext == \E text \in ReTexts : Classify(text)

\* The classifier alone: jafs.py classifies the task of its command line once.
ClassifierNext ==
    /\ DetectTaskType
    /\ UNCHANGED <<extractorVars, mergeVars, configVars, orchestratorVars, agentVars, toolVars, frontVars, httpVars>>

(***************************************************************************)
(* More of Python's str: split, strip and replace.                         *)
(***************************************************************************)

\* s.split("\n"): the texts between the line breaks, in order.
SplitLines(s) ==
    LET breaks == {i \in 1..Len(s) : SubSeq(s, i, i) = "\n"}
        \* the position of the k-th line break; 0 and Len(s) + 1 close the ends
        BreakAt(k) ==
            IF k = 0 THEN 0
            ELSE IF k > Cardinality(breaks) THEN Len(s) + 1
            ELSE CHOOSE p \in breaks : Cardinality({q \in breaks : q < p}) = k - 1
    IN [k \in 1..(Cardinality(breaks) + 1) |->
            SubSeq(s, BreakAt(k - 1) + 1, BreakAt(k) - 1)]

\* s.strip(): from the first to the last character that is no white space.
Strip(s) ==
    LET solid == {i \in 1..Len(s) : SubSeq(s, i, i) \notin Whitespace}
    IN IF solid = {} THEN ""
       ELSE SubSeq(s, Min(solid), CHOOSE p \in solid : \A q \in solid : q <= p)

\* s[i..] with every occurrence of old replaced by new, left to right.
RECURSIVE ReplaceFrom(_, _, _, _)
ReplaceFrom(s, old, new, i) ==
    LET found == {p \in i..Len(s) : OccursAt(s, old, p)}
    IN IF found = {} THEN SubSeq(s, i, Len(s))
       ELSE SubSeq(s, i, Min(found) - 1) \o new
                \o ReplaceFrom(s, old, new, Min(found) + Len(old))

\* s.replace(old, new), old not empty.
Replace(s, old, new) == ReplaceFrom(s, old, new, 1)

\* Whether pat occurs somewhere in s (Python's "pat in s").
Contains(s, pat) == \E i \in 1..Len(s) : OccursAt(s, pat, i)

(***************************************************************************)
(* JSON values and the json module.  A value is a record with one field    *)
(* that names its kind: obj (a function from keys), arr (a sequence), str, *)
(* num.  json.loads is the library's: it is given as the table of the      *)
(* documents the completions below can hold (the text as the model writes  *)
(* it and as json.dumps writes it); any other text is a JSONDecodeError.   *)
(***************************************************************************)

JObj(f) == [obj |-> f]
JArr(q) == [arr |-> q]
JStr(x) == [str |-> x]
JNum(n) == [num |-> n]

IsObj(v) == DOMAIN v = {"obj"}
IsArr(v) == DOMAIN v = {"arr"}
IsStr(v) == DOMAIN v = {"str"}

JsonDecodeError == [error |-> "JSONDecodeError"]
IsError(v) == DOMAIN v = {"error"}

SearchCall == JObj([name |-> JStr("search"), arguments |-> JObj([q |-> JStr("cats")])])

JsonDocs ==
    << [text  |-> "{\"tool_calls\":[{\"name\":\"search\",\"arguments\":{\"q\":\"cats\"}}]}",
        dumps |-> "{\"tool_calls\": [{\"name\": \"search\", \"arguments\": {\"q\": \"cats\"}}]}",
        value |-> JObj([tool_calls |-> JArr(<<SearchCall>>)])],
       [text  |-> "{\"tool_calls\":[{}]}",
        dumps |-> "{\"tool_calls\": [{}]}",
        value |-> JObj([tool_calls |-> JArr(<<JObj(<<>>)>>)])],
       [text  |-> "{\"tool_calls\":[{\"name\":\"a\"},7]}",
        dumps |-> "{\"tool_calls\": [{\"name\": \"a\"}, 7]}",
        value |-> JObj([tool_calls |-> JArr(<<JObj([name |-> JStr("a")]), JNum(7)>>)])],
       [text  |-> "{\"answer\":1}",
        dumps |-> "{\"answer\": 1}",
        value |-> JObj([answer |-> JNum(1)])],
       [text  |-> "{\n\"answer\":1\n}",
        dumps |-> "{\"answer\": 1}",
        value |-> JObj([answer |-> JNum(1)])] >>

\* json.loads(s): white space around the document is ignored.
JsonLoads(s) ==
    LET k == Strip(s)
        hits == {d \in 1..Len(JsonDocs) : JsonDocs[d].text = k \/ JsonDocs[d].dumps = k}
    IN IF hits = {} THEN JsonDecodeError ELSE JsonDocs[CHOOSE d \in hits : TRUE].value

\* json.dumps(v) of a value json.loads returned.
JsonDumps(v) == JsonDocs[CHOOSE d \in 1..Len(JsonDocs) : JsonDocs[d].value = v].dumps

(***************************************************************************)
(* Tool-call extraction: OllamaModel.generate_with_tools, from the         *)
(* completion that generate returned.                                      *)
(***************************************************************************)

\* The backquote cannot be written in a TLA+ string: the model writes the
\* apostrophe for it, so the fence marker of the source is "'''" here.  No
\* text of the model holds an apostrophe otherwise.

\* A line that ends with a fence marker, whatever precedes it.
IsFenceLineSuffix(line) ==
    LET t == Strip(line)
    IN \/ OccursAt(t, "'''json", Len(t) - 6)
       \/ OccursAt(t, "'''", Len(t) - 2)

\* line.strip() == "'''json" or line.strip() == "'''"
IsFenceLine(line) == Strip(line) = "'''json" \/ Strip(line) = "'''"

\* The loop with the lines after a fence that is never closed kept as a block.
RECURSIVE ScanFromFlushing(_, _, _, _, _)
ScanFromFlushing(lines, i, in_json_block, json_content, json_blocks) ==
    IF i > Len(lines)
    THEN (IF in_json_block THEN Append(json_blocks, json_content) ELSE json_blocks)
    ELSE IF IsFenceLine(lines[i])
         THEN IF in_json_block
              THEN ScanFromFlushing(lines, i + 1, FALSE, "",
                                    Append(json_blocks, json_content))
              ELSE ScanFromFlushing(lines, i + 1, TRUE, json_content, json_blocks)
         ELSE IF in_json_block
              THEN ScanFromFlushing(lines, i + 1, TRUE,
                                    json_content \o lines[i] \o "\n", json_blocks)
              ELSE ScanFromFlushing(lines, i + 1, FALSE, json_content, json_blocks)

\* The loop over response_text.split("\n") that collects json_blocks.
RECURSIVE ScanFrom(_, _, _, _, _)
ScanFrom(lines, i, in_json_block, json_content, json_blocks) ==
    IF i > Len(lines) THEN json_blocks
    ELSE IF IsFenceLine(lines[i])
         THEN IF in_json_block
              THEN ScanFrom(lines, i + 1, FALSE, "", Append(json_blocks, json_content))
              ELSE ScanFrom(lines, i + 1, TRUE, json_content, json_blocks)
         ELSE IF in_json_block
              THEN ScanFrom(lines, i + 1, TRUE, json_content \o lines[i] \o "\n", json_blocks)
              ELSE ScanFrom(lines, i + 1, FALSE, json_content, json_blocks)

FencedBlocks(text) == ScanFrom(SplitLines(text), 1, FALSE, "", <<>>)

\* "if not json_blocks": the whole response, when it is JSON, re-serialised.
JsonBlocks(text) ==
    LET json_blocks == FencedBlocks(text)
    IN IF json_blocks # <<>> THEN json_blocks
       ELSE IF IsError(JsonLoads(text)) THEN <<>>
       ELSE <<JsonDumps(JsonLoads(text))>>

\* "tool_calls" in data: "yes", "no", or "raise" for a TypeError.
HasToolCalls(data) ==
    IF IsObj(data) THEN (IF "tool_calls" \in DOMAIN data.obj THEN "yes" ELSE "no")
    ELSE IF IsArr(data)
         THEN (IF \E i \in 1..Len(data.arr) : data.arr[i] = JStr("tool_calls")
               THEN "yes" ELSE "no")
    ELSE IF IsStr(data) THEN (IF Contains(data.str, "tool_calls") THEN "yes" ELSE "no")
    ELSE "raise"

\* What "for tool_call in v" goes through: the entries of an array; the keys
\* of an object and the characters of a string are all strings.
Iterable(v) == IsArr(v) \/ IsObj(v) \/ IsStr(v)
EntriesOf(v) ==
    IF IsArr(v) THEN v.arr
    ELSE IF IsObj(v) THEN [i \in 1..Cardinality(DOMAIN v.obj) |-> JStr("key")]
    ELSE [i \in 1..Len(v.str) |-> JStr(SubSeq(v.str, i, i))]

\* tool_call.get(key, dflt) on a mapping.
DictGet(d, key, dflt) == IF key \in DOMAIN d.obj THEN d.obj[key] ELSE dflt

\* The inner loop with ids numbered from 0 in each payload.
RECURSIVE NormalizeFromReset(_, _, _)
NormalizeFromReset(entries, i, tool_calls) ==
    IF i > Len(entries) THEN [tool_calls |-> tool_calls, raised |-> FALSE]
    ELSE IF ~IsObj(entries[i]) THEN [tool_calls |-> tool_calls, raised |-> TRUE]
    ELSE NormalizeFromReset(entries, i + 1,
             Append(tool_calls,
                    [id        |-> "call_" \o ToString(i - 1),
                     name      |-> DictGet(entries[i], "name", JStr("")),
                     arguments |-> DictGet(entries[i], "arguments", JObj(<<>>))]))

\* The inner loop: each entry is normalised and appended; an entry that is
\* no mapping has no .get and raises, after the appends made so far.
RECURSIVE NormalizeFrom(_, _, _)
NormalizeFrom(entries, i, tool_calls) ==
    IF i > Len(entries) THEN [tool_calls |-> tool_calls, raised |-> FALSE]
    ELSE IF ~IsObj(entries[i]) THEN [tool_calls |-> tool_calls, raised |-> TRUE]
    ELSE NormalizeFrom(entries, i + 1,
             Append(tool_calls,
                    [id        |-> "call_" \o ToString(Len(tool_calls)),
                     name      |-> DictGet(entries[i], "name", JStr("")),
                     arguments |-> DictGet(entries[i], "arguments", JObj(<<>>))]))

\* The two content.replace calls after the inner loop.
RemoveBlock(content, json_block) ==
    Replace(Replace(content, "'''json\n" \o json_block \o "\n'''", ""),
            "'''\n" \o json_block \o "\n'''", "")

\* A pass in which a block that does not parse loses the calls found so far.
ProcessBlockLosing(acc, json_block) ==
    LET data == JsonLoads(json_block)
    IN IF IsError(data) THEN [tool_calls |-> <<>>, content |-> acc.content]
       ELSE IF HasToolCalls(data) # "yes" THEN acc
       ELSE [tool_calls |-> NormalizeFrom(EntriesOf(data.obj["tool_calls"]), 1,
                                          acc.tool_calls).tool_calls,
             content    |-> acc.content]

\* One pass of "for json_block in json_blocks", with its try/except: acc holds
\* tool_calls and content.
ProcessBlock(acc, json_block) ==
    LET data == JsonLoads(json_block)
    IN IF IsError(data) THEN acc
       ELSE IF HasToolCalls(data) # "yes" THEN acc
       ELSE IF ~IsObj(data) THEN acc
       ELSE IF ~Iterable(data.obj["tool_calls"]) THEN acc
       ELSE LET n == NormalizeFrom(EntriesOf(data.obj["tool_calls"]), 1, acc.tool_calls)
            IN IF n.raised
               THEN [tool_calls |-> n.tool_calls, content |-> acc.content]
               ELSE [tool_calls |-> n.tool_calls,
                     content    |-> RemoveBlock(acc.content, json_block)]

RECURSIVE ProcessFrom(_, _, _)
ProcessFrom(json_blocks, i, acc) ==
    IF i > Len(json_blocks) THEN acc
    ELSE ProcessFrom(json_blocks, i + 1, ProcessBlock(acc, json_blocks[i]))

\* The same with the content returned as it is, not stripped.
generate_with_tools_untrimmed(text) ==
    LET acc == ProcessFrom(JsonBlocks(text), 1, [tool_calls |-> <<>>, content |-> text])
    IN [called |-> TRUE, content |-> acc.content, tool_calls |-> acc.tool_calls]

\* The extraction part of generate_with_tools, as a function of response_text.
generate_with_tools(text) ==
    LET acc == ProcessFrom(JsonBlocks(text), 1, [tool_calls |-> <<>>, content |-> text])
    IN [called |-> TRUE, content |-> Strip(acc.content), tool_calls |-> acc.tool_calls]

\* The completions: up to MaxSegments segments, joined by line breaks.
MaxSegments == 3

Fenced(open, payload) == open \o "\n" \o payload \o "\n'''"

Segments ==
    {"",
     "Sure!",
     "Sure! '''json",
     "'''",
     "{bad",
     Fenced("'''", "{bad"),
     JsonDocs[1].text,
     JsonDocs[4].text,
     Fenced("'''json", JsonDocs[1].text),
     Fenced("'''", JsonDocs[2].text),
     Fenced("'''json", JsonDocs[3].text),
     Fenced("'''json", JsonDocs[5].text)}

RECURSIVE CompletionsOf(_)
CompletionsOf(n) ==
    IF n = 1 THEN Segments
    ELSE {p \o "\n" \o t : p \in Segments, t \in CompletionsOf(n - 1)}

Completions == UNION {CompletionsOf(n) : n \in 1..MaxSegments}

(***************************************************************************)
(* Structured extraction: OllamaModel.extract_json, from the response that *)
(* generate returned.                                                      *)
(***************************************************************************)

StartsWith(s, prefix) == OccursAt(s, prefix, 1)
EndsWith(s, suffix) == OccursAt(s, suffix, Len(s) - Len(suffix) + 1)

\* The texts of a sequence that json.loads accepts, in order.
Parsing(texts) == SelectSeq(texts, LAMBDA t : ~IsError(JsonLoads(t)))

\* line.strip().startswith("{") and line.strip().endswith("}")
IsBracedLine(line) == StartsWith(Strip(line), "{") /\ EndsWith(Strip(line), "}")

\* The lines the second loop hands to json.loads, stripped, in order.
BracedLines(text) ==
    LET lines == SelectSeq(SplitLines(text), IsBracedLine)
    IN [i \in 1..Len(lines) |-> Strip(lines[i])]

\* {"error": "Failed to parse JSON response"}
FailedToParse == JObj([error |-> JStr("Failed to parse JSON response")])

\* The strategies with the fenced blocks tried before the single lines.
extract_json_blocks_first(text) ==
    LET lines == Parsing(BracedLines(text))
        blocks == Parsing(FencedBlocks(text))
    IN IF ~IsError(JsonLoads(text)) THEN JsonLoads(text)
       ELSE IF blocks # <<>> THEN JsonLoads(blocks[1])
       ELSE IF lines # <<>> THEN JsonLoads(lines[1])
       ELSE FailedToParse

\* What extract_json returns for the response text: the whole response, else
\* the first braced line that parses, else the first closed fenced block that
\* parses, else the error mapping.
extract_json(text) ==
    LET lines == Parsing(BracedLines(text))
        blocks == Parsing(FencedBlocks(text))
    IN IF ~IsError(JsonLoads(text)) THEN JsonLoads(text)
       ELSE IF lines # <<>> THEN JsonLoads(lines[1])
       ELSE IF blocks # <<>> THEN JsonLoads(blocks[1])
       ELSE FailedToParse

NotCalled == [called |-> FALSE, content |-> "", tool_calls |-> <<>>]

NotExtracted == [called |-> FALSE, raised |-> FALSE, value |-> <<>>]

ExtractorIdle ==
    response_text = "" /\ extraction = NotCalled /\ extracted = NotExtracted

ExtractorInit ==
    response_text \in Completions /\ extraction = NotCalled /\ extracted = NotExtracted

\* generate_with_tools, from the return of generate on.
GenerateWithTools ==
    /\ ~extraction.called /\ ~extracted.called
    /\ extraction' = generate_with_tools(response_text)
    /\ UNCHANGED <<response_text, extracted>>
    /\ UNCHANGED <<classifierVars, mergeVars, configVars, orchestratorVars, agentVars, toolVars, frontVars, httpVars>>

\* extract_json, from the return of generate on: every path returns.
ExtractJson ==
    /\ ~extraction.called /\ ~extracted.called
    /\ extracted' = [called |-> TRUE, raised |-> FALSE,
                     value |-> extract_json(response_text)]
    /\ UNCHANGED <<response_text, extraction>>
    /\ UNCHANGED <<classifierVars, mergeVars, configVars, orchestratorVars, agentVars, toolVars, frontVars, httpVars>>

\* One call on the model adapter for the completion.
ExtractorNext == GenerateWithTools \/ ExtractJson

(***************************************************************************)
(* Configuration values (what yaml.safe_load returns, and the literals of  *)
(* orchestrator.py): a record with one field that names the kind: map (a   *)
(* function from keys), str, int, bool, list, null.                        *)
(***************************************************************************)

CMap(f) == [map |-> f]
CStr(x) == [str |-> x]
CInt(n) == [int |-> n]
CBool(b) == [bool |-> b]
CList(q) == [list |-> q]
CFloat(x) == [float |-> x]
CNull == [null |-> TRUE]

IsMap(v) == DOMAIN v = {"map"}

\* dict item assignment: f with f[key] = value.
DictPut(f, key, value) ==
    [k \in DOMAIN f \cup {key} |-> IF k = key THEN value ELSE f[k]]

\* A merge that replaces a whole entry by the override's, nested or not.
RECURSIVE MergeShallow(_, _, _)
MergeShallow(result, o, keys) ==
    IF keys = {} THEN result
    ELSE LET key == CHOOSE k \in keys : TRUE
         IN MergeShallow(DictPut(result, key, o[key]), o, keys \ {key})

\* AgentOrchestrator._merge_configs on two mappings: result is default's copy,
\* and the loop over override.items() goes through keys, the keys left.
RECURSIVE MergeItems(_, _, _)
MergeItems(result, o, keys) ==
    IF keys = {} THEN result
    ELSE LET key == CHOOSE k \in keys : TRUE
             value == o[key]
             merged_value ==
                 IF key \in DOMAIN result /\ IsMap(result[key]) /\ IsMap(value)
                 THEN CMap(MergeItems(result[key].map, value.map, DOMAIN value.map))
                 ELSE value
         IN MergeItems(DictPut(result, key, merged_value), o, keys \ {key})

AttributeError == [raised |-> "AttributeError"]
IsRaised(v) == DOMAIN v = {"raised"}

\* _merge_configs(default, override), default a mapping: override.items()
\* raises on anything that is no mapping.
merge_configs(d, o) ==
    IF ~IsMap(o) THEN AttributeError
    ELSE CMap(MergeItems(d.map, o.map, DOMAIN o.map))

\* The mappings the merge is checked on: keys a and b, scalars 1..NumScalars,
\* mappings nested twice.
NumScalars == 2

MergeKeySet == {"a", "b"}
Scalars == {CInt(n) : n \in 1..NumScalars}
MapsOver(values) ==
    {CMap(f) : f \in UNION {[ks -> values] : ks \in SUBSET MergeKeySet}}
Maps1 == MapsOver(Scalars)
Maps2 == MapsOver(Scalars \cup Maps1)

NotMerged == [unset |-> TRUE]

MergeIdle == default = NotMerged /\ override = NotMerged /\ merged = NotMerged

MergeInit == default \in Maps2 /\ override \in Maps2 /\ merged = NotMerged

\* A call of _merge_configs(default, override).
MergeConfigs ==
    /\ merged = NotMerged
    /\ merged' = merge_configs(default, override)
    /\ UNCHANGED <<default, override>>

MergeNext ==
    /\ MergeConfigs
    /\ UNCHANGED <<classifierVars, extractorVars, configVars, orchestratorVars, agentVars, toolVars, frontVars, httpVars>>

(***************************************************************************)
(* AgentOrchestrator._load_config.                                         *)
(***************************************************************************)

default_config ==
    CMap([agent  |-> CMap([name                 |-> CStr("jafs"),
                           mode                 |-> CStr("single"),
                           max_iterations       |-> CInt(10),
                           complexity_threshold |-> CInt(7)]),
          memory |-> CMap([short_term |-> CMap([capacity |-> CInt(1000),
                                                ttl      |-> CInt(3600)]),
                           long_term  |-> CMap([enabled         |-> CBool(TRUE),
                                                storage_path    |-> CNull,
                                                index_in_memory |-> CBool(TRUE)])]),
          models |-> CMap([default |-> CMap([provider    |-> CStr("openai"),
                                             model       |-> CStr("gpt-4"),
                                             temperature |-> CFloat("0.0")])]),
          tools  |-> CMap([enabled |-> CList(<<>>)])])

\* What is found at config_path: no file; a file that open() refuses; a file
\* that yaml.safe_load rejects; a file that loads to value.
Missing == [kind |-> "missing", value |-> CNull]
Unreadable == [kind |-> "unreadable", value |-> CNull]
InvalidYaml == [kind |-> "invalid", value |-> CNull]
Loaded(v) == [kind |-> "loaded", value |-> v]

\* _load_config without its try/except: the exception leaves the method.
load_config_no_except(src) ==
    IF src.kind = "missing" THEN default_config
    ELSE IF src.kind = "unreadable" THEN [raised |-> "OSError"]
    ELSE IF src.kind = "invalid" THEN [raised |-> "YAMLError"]
    ELSE merge_configs(default_config, src.value)

\* _load_config(config_path): the default when the file is missing; else the
\* merge of the loaded value over the default, and the default again when
\* open, yaml.safe_load or _merge_configs raised.
load_config(src) ==
    IF src.kind = "missing" THEN default_config
    ELSE IF src.kind \in {"unreadable", "invalid"} THEN default_config
    ELSE LET merged_config == merge_configs(default_config, src.value)
         IN IF IsRaised(merged_config) THEN default_config ELSE merged_config

\* The override files: each top-level key absent or with one of a few values.
Absent == [absent |-> TRUE]

AgentOptions ==
    {Absent,
     CStr("x"),
     CMap([mode |-> CStr("multi")]),
     CMap([mode |-> CStr("auto")]),
     CMap([name |-> CStr("bot"), max_iterations |-> CInt(3)])}

ToolsOptions == {Absent, CMap([enabled |-> CList(<<"search">>)])}

MemoryOptions ==
    {Absent,
     CMap([short_term |-> CMap([capacity |-> CInt(5)])]),
     CMap([long_term |-> CNull])}

SpecializedOptions ==
    {Absent,
     CMap([researcher |-> CMap([name |-> CStr("r2"), max_iterations |-> CInt(3)])]),
     CMap([roles  |-> CList(<<"critic", "ghost">>),
           critic |-> CMap([tools |-> CList(<<"search">>)])])}

YamlMap(a, t, m, sp) ==
    LET all == [agent |-> a, tools |-> t, memory |-> m, specialized_agents |-> sp]
    IN CMap([k \in {x \in DOMAIN all : all[x] # Absent} |-> all[k]])

YamlMaps ==
    {YamlMap(a, t, m, sp) : a \in AgentOptions, t \in ToolsOptions,
                            m \in MemoryOptions, sp \in SpecializedOptions}

\* What a file can load to that is no mapping: nothing (an empty file), a
\* string, a list.
YamlOthers == {CNull, CStr("just text"), CList(<<"a", "b">>)}

Sources ==
    {Missing, Unreadable, InvalidYaml} \cup {Loaded(v) : v \in YamlMaps \cup YamlOthers}

NotLoaded == [unset |-> TRUE]

ConfigIdle == source = Missing /\ config = NotLoaded

ConfigInit == source \in Sources /\ config = NotLoaded

\* A call of _load_config(config_path).
LoadConfig ==
    /\ config = NotLoaded
    /\ config' = load_config(source)
    /\ UNCHANGED source

ConfigNext ==
    /\ LoadConfig
    /\ UNCHANGED <<classifierVars, extractorVars, mergeVars, orchestratorVars, agentVars, toolVars, frontVars, httpVars>>

(***************************************************************************)
(* The agents.  HybridAgent (jafs.core.agent) is given by the              *)
(* specification: an agent has an id, a name, a mode, max_iterations,      *)
(* tools, and, on the primary agent, specialized_agents by role, which     *)
(* exist when the mode is multi or auto.  Its execute returns a result     *)
(* with a status, or raises.                                               *)
(***************************************************************************)

default_roles == <<"researcher", "planner", "executor", "critic">>

RangeOf(q) == {q[i] : i \in 1..Len(q)}

\* HybridAgent(name, max_iterations, tools, mode, complexity_threshold, ...)
HybridAgent(name, max_iterations, tools, mode, complexity_threshold) ==
    [id                   |-> "agent-primary",
     name                 |-> name,
     type                 |-> "HybridAgent",
     mode                 |-> mode,
     max_iterations       |-> max_iterations,
     complexity_threshold |-> complexity_threshold,
     tools                |-> tools,
     specialized_agents   |->
         IF mode \in {CStr("multi"), CStr("auto")}
         THEN [role \in RangeOf(default_roles) |->
                  [id             |-> "agent-" \o role,
                   name           |-> CStr(role),
                   type           |-> "BaseAgent",
                   max_iterations |-> max_iterations,
                   tools          |-> tools]]
         ELSE <<>>]

\* What primary_agent.execute(task, mode) can return.
AgentResults ==
    {[answer |-> "done", status |-> st] : st \in {"completed", "incomplete", "failed"}}

\* The call raised instead.
Raises == [raised |-> "Exception"]

AgentOutcomes == AgentResults \cup {Raises}

(***************************************************************************)
(* AgentOrchestrator: construction.                                        *)
(***************************************************************************)

\* d.get(key, dflt) on a configuration mapping.
CGet(d, key, dflt) == IF key \in DOMAIN d.map THEN d.map[key] ELSE dflt

\* The loop with a specialized agent made for a role the agent does not have.
RECURSIVE UpdateRolesCreating(_, _, _, _)
UpdateRolesCreating(cfg, agent, roles, i) ==
    IF i > Len(roles) THEN agent
    ELSE LET role == roles[i]
             made == [id             |-> "agent-" \o role,
                      name           |-> CStr(role \o "-agent"),
                      type           |-> "BaseAgent",
                      max_iterations |-> agent.max_iterations,
                      tools          |-> agent.tools]
         IN UpdateRolesCreating(cfg,
                [agent EXCEPT !.specialized_agents =
                     [r \in DOMAIN agent.specialized_agents \cup {role} |->
                         IF r = role THEN made ELSE agent.specialized_agents[r]]],
                roles, i + 1)

\* The loop with the role's own block of the configuration left unread.
RECURSIVE UpdateRolesDefaultOnly(_, _, _, _)
UpdateRolesDefaultOnly(cfg, agent, roles, i) ==
    IF i > Len(roles) THEN agent
    ELSE IF roles[i] \notin DOMAIN agent.specialized_agents
         THEN UpdateRolesDefaultOnly(cfg, agent, roles, i + 1)
    ELSE LET role == roles[i]
             old == agent.specialized_agents[role]
             new == [old EXCEPT !.name = CStr(role \o "-agent"),
                                !.max_iterations = agent.max_iterations,
                                !.tools = CGet(CGet(cfg, "tools", CMap(<<>>)),
                                               "enabled", CList(<<>>))]
         IN UpdateRolesDefaultOnly(cfg,
                        [agent EXCEPT !.specialized_agents =
                             [r \in DOMAIN agent.specialized_agents |->
                                 IF r = role THEN new ELSE agent.specialized_agents[r]]],
                        roles, i + 1)

\* The loop of _create_specialized_agents over roles, from the i-th on:
\* a role the agent does not have is skipped, the others get name,
\* max_iterations and tools from the merge of the role's block over the role
\* default.
RECURSIVE UpdateRoles(_, _, _, _)
UpdateRoles(cfg, agent, roles, i) ==
    IF i > Len(roles) THEN agent
    ELSE IF roles[i] \notin DOMAIN agent.specialized_agents
         THEN UpdateRoles(cfg, agent, roles, i + 1)
    ELSE LET role == roles[i]
             specialized_config == CGet(cfg, "specialized_agents", CMap(<<>>))
             role_config == CGet(specialized_config, role, CMap(<<>>))
             default_role_config ==
                 CMap([name           |-> CStr(role \o "-agent"),
                       max_iterations |-> agent.max_iterations,
                       tools          |-> CGet(CGet(cfg, "tools", CMap(<<>>)),
                                               "enabled", CList(<<>>))])
             merged_config == merge_configs(default_role_config, role_config)
             old == agent.specialized_agents[role]
             new == [old EXCEPT !.name = CGet(merged_config, "name", old.name),
                                !.max_iterations =
                                    CGet(merged_config, "max_iterations", old.max_iterations),
                                !.tools = CGet(merged_config, "tools", old.tools)]
         IN UpdateRoles(cfg,
                        [agent EXCEPT !.specialized_agents =
                             [r \in DOMAIN agent.specialized_agents |->
                                 IF r = role THEN new ELSE agent.specialized_agents[r]]],
                        roles, i + 1)

\* _create_specialized_agents(primary_agent): the agent with its roles updated.
create_specialized_agents(cfg, agent) ==
    LET specialized_config == CGet(cfg, "specialized_agents", CMap(<<>>))
        roles == CGet(specialized_config, "roles", CList(default_roles)).list
    IN UpdateRoles(cfg, agent, roles, 1)

\* _create_primary_agent(): the agent it builds and returns.
create_primary_agent(cfg) ==
    LET agent_config == CGet(cfg, "agent", CMap(<<>>))
        name == CGet(agent_config, "name", CStr("jafs"))
        mode == CGet(agent_config, "mode", CStr("single"))
        max_iterations == CGet(agent_config, "max_iterations", CInt(10))
        complexity_threshold == CGet(agent_config, "complexity_threshold", CInt(7))
        enabled_tools == CGet(CGet(cfg, "tools", CMap(<<>>)), "enabled", CList(<<>>))
        agent == HybridAgent(name, max_iterations, enabled_tools, mode, complexity_threshold)
    IN IF mode = CStr("multi") \/ mode = CStr("auto")
       THEN create_specialized_agents(cfg, agent)
       ELSE agent

\* self.agents after __init__: "self.agents[name] = agent" for the primary
\* agent is the only assignment to it.
registered_agents(agent) == [n \in {agent.name.str} |-> agent]

\* The configuration files an orchestrator is built from here.
OrchestratorSources ==
    {Missing,
     Loaded(YamlMap(CMap([mode |-> CStr("multi")]), Absent, Absent, Absent)),
     Loaded(YamlMap(CMap([mode |-> CStr("auto")]), Absent, Absent,
                    CMap([roles  |-> CList(<<"critic", "ghost">>),
                          critic |-> CMap([max_iterations |-> CInt(3),
                                           tools          |-> CList(<<"search">>)])])))}

\* executed: the arguments primary_agent.execute was called with, if it was.
NoCall ==
    [op |-> "__init__", arg |-> <<>>, executed |-> <<>>, raised |-> FALSE, value |-> <<>>]

\* No run of the agent yet.  extracted_calls is the number of tool calls
\* each iteration extracted, in order; memory is the MemoryStore.
NoRun ==
    [state |-> "IDLE", task |-> "", max_iterations |-> 0, iteration |-> 0,
     extracted_calls |-> <<>>, memory |-> [id \in {} |-> ""],
     answer |-> "", status |-> ""]

AgentIdle == run = NoRun

\* _execute not called yet.
NotExecuted == [called |-> FALSE, raised |-> "", value |-> <<>>]

ToolIdle == parameters = [map |-> <<>>] /\ tool_result = NotExecuted

\* jafs.main not run.
NotStarted == [called |-> FALSE, rejected |-> FALSE, task |-> "", mode |-> ""]

NoArgs == [task |-> <<>>, mode |-> "None", verbose |-> FALSE]

FrontIdle == args = NoArgs /\ cmd = <<>> /\ started = NotStarted

\* No HTTP call in sight.
NoHttp == [kind |-> "none"]

HttpIdle == http = NoHttp

OrchestratorIdle ==
    /\ agents = <<>>
    /\ primary_agent = <<>>
    /\ last_result = <<>>
    /\ task_history = <<>>
    /\ now = 0
    /\ ret = NoCall

\* The state __init__ leaves.
Init ==
    /\ ClassifierIdle
    /\ ExtractorIdle
    /\ MergeIdle
    /\ source \in OrchestratorSources
    /\ config = load_config(source)
    /\ primary_agent = create_primary_agent(config)
    /\ agents = registered_agents(primary_agent)
    /\ last_result = <<>>
    /\ task_history = <<>>
    /\ now = 0
    /\ ret = NoCall
    /\ AgentIdle /\ ToolIdle /\ FrontIdle /\ HttpIdle

(***************************************************************************)
(* AgentOrchestrator: the calls.  ret records the last call, its           *)
(* arguments, whether it raised, and what it returned.                     *)
(***************************************************************************)

\* What the calls on the orchestrator leave alone.
otherVars == <<classifierVars, extractorVars, mergeVars, configVars, agentVars, toolVars, frontVars, httpVars>>

MaxHistory == 2
MaxTime == 1
MaxLimit == 3

\* The task text: one that holds an easter-egg keyword ("status").
Tasks == {"status report"}

\* The mode argument: None (written "None"), or a mode.
ModeArgs == {"None", "multi"}

\* One read of time.time(): the clock does not run backwards between two
\* reads, and the model lets it advance by at most one unit per read.
ClockReads(t) == {u \in {t, t + 1} : u <= MaxTime}

\* The configured mode whatever the argument is.
resolve_mode_config_only(mode) ==
    CGet(CGet(config, "agent", CMap(<<>>)), "mode", CStr("single")).str

\* "if mode is None: mode = self.config.get("agent", {}).get("mode", "single")"
resolve_mode(mode) ==
    IF mode = "None"
    THEN CGet(CGet(config, "agent", CMap(<<>>)), "mode", CStr("single")).str
    ELSE mode

\* The record put first instead of last.
history_prepend(history, task_record) == <<task_record>> \o history

\* self.task_history.append(task_record)
history_append(history, task_record) == Append(history, task_record)

\* self._easter_egg_tasks, in the order of the dict.
easter_egg_tasks ==
    << <<"status", "Performing deep JAFS inspection...">>,
       <<"health", "Checking if JAFS is functioning properly...">>,
       <<"clean", "Clearing old data from JAFS...">>,
       <<"optimize", "Making JAFS more responsive and flexible...">>,
       <<"expand", "Expanding JAFS capabilities...">> >>

\* "word in s.split()": word stands in s between white space or the ends.
InSplit(word, s) ==
    \E i \in 1..Len(s) :
        /\ OccursAt(s, word, i)
        /\ (i = 1 \/ CharAt(s, i - 1) \in Whitespace)
        /\ (i + Len(word) > Len(s) \/ CharAt(s, i + Len(word)) \in Whitespace)

\* display_task after the loop over the easter eggs: the message of the
\* first keyword that is a word of the task, else the task.
display_task(t) ==
    LET lowered == Lower(t)
        hits == {k \in 1..Len(easter_egg_tasks) :
                     InSplit(Lower(easter_egg_tasks[k][1]), lowered)}
    IN IF hits = {} THEN t ELSE easter_egg_tasks[Min(hits)][2]

\* The agent given the text that is logged.
executed_display_task(t) == display_task(t)

\* The first argument of "self.primary_agent.execute(task, mode=mode)".
executed_task(t) == t

\* The history with a record made for a call that raised.
history_on_raise_recording(history) ==
    Append(history, [status |-> "failed"])

\* self.task_history when execute raises: the exception leaves execute_task
\* at the call, before the record is made.
history_on_raise(history) == history

\* execute_task(t, mode) with the outcome of primary_agent.execute.  The
\* easter-egg keywords only change the text that is logged.
ExecuteTask(t, mode, outcome) ==
    /\ UNCHANGED otherVars
    /\ \E start_time \in ClockReads(now) :
        IF outcome = Raises
        THEN /\ ret' = [op |-> "execute_task", arg |-> <<t, mode>>,
                        executed |-> <<executed_task(t), resolve_mode(mode)>>,
                        raised |-> TRUE, value |-> <<>>]
             /\ now' = start_time
             /\ task_history' = history_on_raise(task_history)
             /\ UNCHANGED <<agents, primary_agent, last_result>>
        ELSE \E end_time \in ClockReads(start_time) :
             LET task_record ==
                     [task           |-> t,
                      mode           |-> resolve_mode(mode),
                      start_time     |-> start_time,
                      execution_time |-> end_time - start_time,
                      status         |-> "completed",
                      result         |-> outcome]
             IN /\ Len(task_history) < MaxHistory
                /\ task_history' = history_append(task_history, task_record)
                /\ last_result' = outcome
                /\ now' = end_time
                /\ ret' = [op |-> "execute_task", arg |-> <<t, mode>>,
                           executed |-> <<executed_task(t), resolve_mode(mode)>>,
                           raised |-> FALSE, value |-> outcome]
                /\ UNCHANGED <<agents, primary_agent>>

\* The names of a registry in the order items() gives them.
RECURSIVE NamesOf(_)
NamesOf(names) ==
    IF names = {} THEN <<>>
    ELSE LET n == CHOOSE x \in names : TRUE IN <<n>> \o NamesOf(names \ {n})

AgentEntry(agent, primary) ==
    [id |-> agent.id, name |-> agent.name, type |-> agent.type, primary |-> primary]

\* list_agents(): the primary agent's entry, then one for each agent of
\* self.agents whose id is not the primary agent's.
list_agents ==
    LET names == NamesOf(DOMAIN agents)
        others == SelectSeq(names, LAMBDA n : agents[n].id # primary_agent.id)
    IN <<AgentEntry(primary_agent, TRUE)>>
           \o [i \in 1..Len(others) |-> AgentEntry(agents[others[i]], FALSE)]

ListAgents ==
    /\ ret' = [op |-> "list_agents", arg |-> <<>>, executed |-> <<>>,
               raised |-> FALSE, value |-> list_agents]
    /\ UNCHANGED <<agents, primary_agent, last_result, task_history, now>>
    /\ UNCHANGED otherVars

\* q[start:] as Python slices: a negative start counts from the end.
SliceFrom(q, start) ==
    LET n == Len(q)
        from == IF start < 0
                THEN (IF n + start < 0 THEN 0 ELSE n + start)
                ELSE (IF start > n THEN n ELSE start)
    IN SubSeq(q, from + 1, n)

\* get_task_history(limit): self.task_history[-limit:]
get_task_history(limit) == SliceFrom(task_history, 0 - limit)

GetTaskHistory(limit) ==
    /\ ret' = [op |-> "get_task_history", arg |-> <<limit>>, executed |-> <<>>,
               raised |-> FALSE, value |-> get_task_history(limit)]
    /\ UNCHANGED <<agents, primary_agent, last_result, task_history, now>>
    /\ UNCHANGED otherVars

GetLastResult ==
    /\ ret' = [op |-> "get_last_result", arg |-> <<>>, executed |-> <<>>,
               raised |-> FALSE, value |-> last_result]
    /\ UNCHANGED <<agents, primary_agent, last_result, task_history, now>>
    /\ UNCHANGED otherVars

Next ==
    \/ \E t \in Tasks, mode \in ModeArgs, outcome \in AgentOutcomes :
           ExecuteTask(t, mode, outcome)
    \/ ListAgents
    \/ \E limit \in 0..MaxLimit : GetTaskHistory(limit)
    \/ GetLastResult

Spec == Init /\ [][Next]_vars

InitClassifier ==
    ClassifierInit /\ ExtractorIdle /\ MergeIdle /\ ConfigIdle /\ OrchestratorIdle /\ AgentIdle /\ ToolIdle /\ FrontIdle /\ HttpIdle

SpecClassifier == InitClassifier /\ [][ClassifierNext]_vars

\* Any number of calls of detect_task_type, one after the other.
InitReclassify ==
    ClassifierIdle /\ ExtractorIdle /\ MergeIdle /\ ConfigIdle /\ OrchestratorIdle /\ AgentIdle /\ ToolIdle /\ FrontIdle /\ HttpIdle

SpecReclassify == InitReclassify /\ [][ReclassifyNext]_vars

InitExtractor ==
    ExtractorInit /\ ClassifierIdle /\ MergeIdle /\ ConfigIdle /\ OrchestratorIdle /\ AgentIdle /\ ToolIdle /\ FrontIdle /\ HttpIdle

SpecExtractor == InitExtractor /\ [][ExtractorNext]_vars

InitMerge ==
    MergeInit /\ ClassifierIdle /\ ExtractorIdle /\ ConfigIdle /\ OrchestratorIdle /\ AgentIdle /\ ToolIdle /\ FrontIdle /\ HttpIdle

SpecMerge == InitMerge /\ [][MergeNext]_vars

InitConfig ==
    ConfigInit /\ ClassifierIdle /\ ExtractorIdle /\ MergeIdle /\ OrchestratorIdle /\ AgentIdle /\ ToolIdle /\ FrontIdle /\ HttpIdle

SpecConfig == InitConfig /\ [][ConfigNext]_vars

(***************************************************************************)
(* The agent's single-mode loop.  jafs.core.agent is not part of the       *)
(* source tree: the loop is the one the specification describes (INIT,     *)
(* ITERATING, DONE, FAILED), run on the primary agent that                 *)
(* _create_primary_agent builds and with the extraction of                 *)
(* generate_with_tools.                                                    *)
(***************************************************************************)

MaxIterations == 3

\* Configuration files that set agent.max_iterations.
LoopSources ==
    {Loaded(YamlMap(CMap([max_iterations |-> CInt(n)]), Absent, Absent, Absent)) :
         n \in 1..MaxIterations}

LoopTasks == {"", "status report"}

\* The mode argument of a run in single mode: None, or "single".
LoopModes == {"None", "single"}

\* What the model answers in an iteration: a final answer; a fence whose
\* payload does not parse; one tool call; two tool calls.
LoopCompletions ==
    {"Sure!",
     Fenced("'''", "{bad"),
     Fenced("'''json", JsonDocs[1].text),
     Fenced("'''json", JsonDocs[1].text) \o "\n" \o Fenced("'''json", JsonDocs[1].text)}

\* generate_with_tools on each of them.
LoopExtractions == [completion \in LoopCompletions |-> generate_with_tools(completion)]

\* What executing a tool gives.
ToolResults == {"ok", "error"}

\* The results of the tool calls of one iteration, one per call.
ResultSeqs == UNION {[1..k -> ToolResults] : k \in 0..2}

\* MemoryStore after each result is stored under its call's id.
Store(memory, tool_calls, results) ==
    LET ids == {tool_calls[i].id : i \in DOMAIN tool_calls}
    IN [id \in DOMAIN memory \cup ids |->
           IF id \in ids
           THEN results[CHOOSE i \in DOMAIN tool_calls :
                            /\ tool_calls[i].id = id
                            /\ \A j \in DOMAIN tool_calls :
                                   tool_calls[j].id = id => j <= i]
           ELSE memory[id]]

\* The loop left one iteration later than max_iterations allows.
AfterIterationOneMore(r, out, results) ==
    LET n == r.iteration + 1
        counted == [r EXCEPT !.iteration = n,
                             !.extracted_calls = Append(@, Len(out.tool_calls))]
    IN IF out.tool_calls = <<>>
       THEN [counted EXCEPT !.state = "DONE", !.status = "completed",
                            !.answer = out.content]
       ELSE LET stored == [counted EXCEPT
                               !.memory = Store(@, out.tool_calls, results)]
            IN IF n > r.max_iterations
               THEN [stored EXCEPT !.state = "DONE", !.status = "incomplete"]
               ELSE stored

\* The run after one iteration whose extraction is out: no tool call ends
\* the loop with the content as the answer; else the results are stored, and
\* the loop ends as incomplete when this was the last iteration allowed.
AfterIteration(r, out, results) ==
    LET n == r.iteration + 1
        counted == [r EXCEPT !.iteration = n,
                             !.extracted_calls = Append(@, Len(out.tool_calls))]
    IN IF out.tool_calls = <<>>
       THEN [counted EXCEPT !.state = "DONE", !.status = "completed",
                            !.answer = out.content]
       ELSE LET stored == [counted EXCEPT
                               !.memory = Store(@, out.tool_calls, results)]
            IN IF n >= r.max_iterations
               THEN [stored EXCEPT !.state = "DONE", !.status = "incomplete"]
               ELSE stored

\* INIT: execute(t, mode) in single mode; an empty task fails at once.
Begin(t, mode) ==
    /\ run.state = "IDLE"
    /\ resolve_mode(mode) = "single"
    /\ run' = IF t = ""
              THEN [NoRun EXCEPT !.state = "FAILED", !.status = "failed",
                                 !.answer = "InvalidTask"]
              ELSE [NoRun EXCEPT !.state = "ITERATING", !.task = t,
                                 !.max_iterations = primary_agent.max_iterations.int]
    /\ UNCHANGED <<classifierVars, extractorVars, mergeVars, configVars,
                   orchestratorVars, toolVars, frontVars, httpVars>>

\* ITERATING: one iteration, from the model's completion to the results
\* stored and the test that ends the loop.
Iterate(completion, results) ==
    /\ run.state = "ITERATING"
    /\ LET out == LoopExtractions[completion]
       IN /\ Len(results) = Len(out.tool_calls)
          /\ response_text' = completion
          /\ extraction' = out
          /\ run' = AfterIteration(run, out, results)
    /\ UNCHANGED <<extracted, classifierVars, mergeVars, configVars, orchestratorVars, toolVars, frontVars, httpVars>>

BeginRun == \E t \in LoopTasks, mode \in LoopModes : Begin(t, mode)

IterateStep ==
    \E completion \in LoopCompletions, results \in ResultSeqs :
        Iterate(completion, results)

AgentLoopNext == BeginRun \/ IterateStep

\* The state __init__ leaves, the file setting agent.max_iterations.
InitAgentLoop ==
    /\ ClassifierIdle
    /\ ExtractorIdle
    /\ MergeIdle
    /\ source \in LoopSources
    /\ config = load_config(source)
    /\ primary_agent = create_primary_agent(config)
    /\ agents = registered_agents(primary_agent)
    /\ last_result = <<>>
    /\ task_history = <<>>
    /\ now = 0
    /\ ret = NoCall
    /\ AgentIdle /\ ToolIdle /\ FrontIdle /\ HttpIdle

\* execute runs the loop in the caller's thread, and every call of the model
\* returns a completion: an iteration that can be made is made.
SpecAgentLoop == InitAgentLoop /\ [][AgentLoopNext]_vars /\ WF_vars(IterateStep)

(***************************************************************************)
(* DirectResponseTool (direct_response.py).  ToolResult is imported from   *)
(* jafs.tools.base.tool_result: here it is the record of the three         *)
(* keyword arguments it is constructed with.                               *)
(***************************************************************************)

\* The list of _is_creative_task (it is not the list of detect_task_type).
tool_creative_keywords ==
    <<"write", "compose", "create", "generate", "draft",
      "poem", "story", "essay", "article", "letter",
      "song", "lyrics", "script", "dialogue", "narrative",
      "fiction", "creative", "imagine", "fantasy">>

\* _is_creative_task(prompt), for a prompt that is a str.
is_creative_task(prompt) == AnyKeyword(tool_creative_keywords, prompt)

\* _determine_task_type(prompt): the first substring test that succeeds.
determine_task_type(prompt) ==
    LET lowered == Lower(prompt)
    IN IF Contains(lowered, "poem") THEN "poem"
       ELSE IF Contains(lowered, "story") THEN "story"
       ELSE IF Contains(lowered, "essay") THEN "essay"
       ELSE IF Contains(lowered, "article") THEN "article"
       ELSE IF Contains(lowered, "letter") THEN "letter"
       ELSE IF Contains(lowered, "song") \/ Contains(lowered, "lyrics") THEN "song"
       ELSE IF Contains(lowered, "script") THEN "script"
       ELSE IF Contains(lowered, "dialogue") THEN "dialogue"
       ELSE "creative text"

UpperChar(c) ==
    LET hits == {j \in 1..Len(LowerLetters) : SubSeq(LowerLetters, j, j) = c}
    IN IF hits = {} THEN c
       ELSE LET i == CHOOSE j \in hits : TRUE IN SubSeq(UpperLetters, i, i)

\* str.capitalize(): the first character in upper case, the rest in lower.
Capitalize(s) ==
    IF s = "" THEN "" ELSE UpperChar(CharAt(s, 1)) \o Lower(SubSeq(s, 2, Len(s)))

ToolResult(success, message, data) ==
    [success |-> success, message |-> message, data |-> data]

\* _execute(parameters).  A prompt that is no str has no lower() for
\* re.search to be given (None, a number, a list): the call in
\* _is_creative_task raises.  _create_context_prompt returns a text for every
\* str, and the text is not used.
execute(params) ==
    LET prompt == CGet(params, "prompt", CStr(""))
    IN IF DOMAIN prompt # {"str"}
       THEN [called |-> TRUE, raised |-> "AttributeError", value |-> <<>>]
       ELSE IF ~is_creative_task(prompt.str)
       THEN [called |-> TRUE, raised |-> "",
             value  |-> ToolResult(FALSE,
                            "This doesn't seem to be a creative task. Please try a different tool.",
                            CNull)]
       ELSE LET task_type == determine_task_type(prompt.str)
                response ==
                    "This is where the language model would generate a "
                        \o task_type \o " based on: " \o prompt.str
            IN [called |-> TRUE, raised |-> "",
                value  |-> ToolResult(TRUE,
                               Capitalize(task_type) \o " generated successfully",
                               CMap([content |-> CStr(response)]))]

\* The prompts: up to MaxPromptPieces pieces, one after the other.
MaxPromptPieces == 3

PromptPieces == {"Write ", "re", "poem", "s", " a story", "hello "}

RECURSIVE PromptsOf(_)
PromptsOf(n) ==
    IF n = 0 THEN {""}
    ELSE {p \o t : p \in PromptPieces, t \in PromptsOf(n - 1)}

\* The value under "prompt": a str, or what a tool call's arguments can hold
\* in its place (null, a number, a list).
PromptValues ==
    {CStr(x) : x \in UNION {PromptsOf(n) : n \in 0..MaxPromptPieces}}
        \cup {CNull, CInt(7), CList(<<"poem">>)}

\* The parameters mappings: without "prompt", or with one of the values.
ParameterMaps == {CMap(<<>>)} \cup {CMap([prompt |-> v]) : v \in PromptValues}

ToolInit == parameters \in ParameterMaps /\ tool_result = NotExecuted

\* A call of _execute(parameters).
Execute ==
    /\ ~tool_result.called
    /\ tool_result' = execute(parameters)
    /\ UNCHANGED parameters
    /\ UNCHANGED <<classifierVars, extractorVars, mergeVars, configVars,
                   orchestratorVars, agentVars, frontVars, httpVars>>

ToolNext == Execute

InitTool ==
    /\ ToolInit /\ ClassifierIdle /\ ExtractorIdle /\ MergeIdle /\ ConfigIdle
    /\ OrchestratorIdle /\ AgentIdle /\ FrontIdle /\ HttpIdle

SpecTool == InitTool /\ [][ToolNext]_vars

(***************************************************************************)
(* The front end: main of jafs.py builds the command line of jafs.main and *)
(* runs it; main of jafs/main.py parses it and calls execute_task.         *)
(***************************************************************************)

\* choices of --mode in jafs.py, and in jafs/main.py.
front_mode_choices == {"single", "multi", "auto"}
main_mode_choices == {"single", "multi"}

\* " ".join(words)
RECURSIVE JoinWords(_)
JoinWords(words) ==
    IF words = <<>> THEN ""
    ELSE IF Len(words) = 1 THEN words[1]
    ELSE words[1] \o " " \o JoinWords(Tail(words))

\* jafs.py, from parse_args to the command: <<>> when no task is given
\* (the help is printed and nothing is run).
build_cmd(a) ==
    IF a.task = <<>> THEN <<>>
    ELSE LET t == JoinWords(a.task)
             mode == IF a.mode # "None" THEN a.mode ELSE detect_task_type(t)
         IN <<"python", "-m", "jafs.main">>
                \o (IF mode # "" THEN <<"--mode", mode>> ELSE <<>>)
                \o (IF a.verbose THEN <<"--verbose">> ELSE <<>>)
                \o <<"--task", t>>

\* parse_args of jafs/main.py on the arguments from position i on: ns holds
\* the options read so far.  A --mode value outside the choices ends the
\* process with a usage error.
RECURSIVE ParseMain(_, _, _)
ParseMain(argv, i, ns) ==
    IF i > Len(argv) THEN ns
    ELSE IF argv[i] = "--mode" /\ i < Len(argv)
         THEN IF argv[i + 1] \in main_mode_choices
              THEN ParseMain(argv, i + 2, [ns EXCEPT !.mode = argv[i + 1]])
              ELSE [ns EXCEPT !.rejected = TRUE]
    ELSE IF argv[i] = "--task" /\ i < Len(argv)
         THEN ParseMain(argv, i + 2, [ns EXCEPT !.task = argv[i + 1]])
    ELSE IF argv[i] = "--verbose"
         THEN ParseMain(argv, i + 1, ns)
    ELSE [ns EXCEPT !.rejected = TRUE]

\* main of jafs/main.py on a command: the defaults of the parser, then the
\* arguments after "python -m jafs.main".
jafs_main(command) ==
    ParseMain(command, 4, [called |-> TRUE, rejected |-> FALSE, task |-> "", mode |-> "single"])

\* The command lines of jafs.py: up to MaxWords words, a --mode or none.
MaxWords == 2

Words == {"hello", "research", "calculate", "write", "there"}

FrontArgs ==
    [task : UNION {[1..n -> Words] : n \in 0..MaxWords},
     mode : {"None"} \cup front_mode_choices,
     verbose : BOOLEAN]

FrontInit == args \in FrontArgs /\ cmd = <<>> /\ started = NotStarted

\* main of jafs.py, up to subprocess.run.
Launch ==
    /\ cmd = <<>>
    /\ build_cmd(args) # <<>>
    /\ cmd' = build_cmd(args)
    /\ UNCHANGED <<args, started>>
    /\ UNCHANGED <<classifierVars, extractorVars, mergeVars, configVars,
                   orchestratorVars, agentVars, toolVars, httpVars>>

\* The process subprocess.run starts: main of jafs/main.py, to the call of
\* execute_task(args.task, mode=args.mode).
JafsMain ==
    /\ cmd # <<>>
    /\ ~started.called
    /\ started' = jafs_main(cmd)
    /\ UNCHANGED <<args, cmd>>
    /\ UNCHANGED <<classifierVars, extractorVars, mergeVars, configVars,
                   orchestratorVars, agentVars, toolVars, httpVars>>

FrontNext == Launch \/ JafsMain

InitFront ==
    /\ FrontInit /\ ClassifierIdle /\ ExtractorIdle /\ MergeIdle /\ ConfigIdle
    /\ OrchestratorIdle /\ AgentIdle /\ ToolIdle /\ HttpIdle

SpecFront == InitFront /\ [][FrontNext]_vars

(***************************************************************************)
(* OllamaModel.generate and the HTTP call it makes, and generate_with_tools *)
(* on what generate returns.                                               *)
(***************************************************************************)

\* requests.post returned: status_code, text, and what response.json() gives
\* (JsonDecodeError when the body is no JSON).
Response(status_code, text, json) ==
    [kind |-> "response", status_code |-> status_code, text |-> text, json |-> json]

\* requests.post raised, str(e) being message.
Throws(message) == [kind |-> "throws", message |-> message]

\* generate, from the HTTP call on: every path returns a text.
generate(h) ==
    IF h.kind = "throws" THEN "Error: " \o h.message
    ELSE IF h.status_code = 200
         THEN IF IsError(h.json)
              THEN "Error: Expecting value: line 1 column 1 (char 0)"
              ELSE IF ~IsObj(h.json)
              THEN "Error: 'list' object has no attribute 'get'"
              ELSE DictGet(h.json, "response", JStr("")).str
    ELSE "Error: " \o "Ollama API error: " \o ToString(h.status_code) \o " " \o h.text

\* The body of an error answer, or the message of an exception.
ErrorTexts ==
    {"",
     "model not found",
     "{\"error\":\"model not found\"}",
     "Connection refused ",
     "bad gateway\n",
     "'''",
     JsonDocs[1].text,
     Fenced("'''json", JsonDocs[1].text),
     "\n" \o Fenced("'''", JsonDocs[1].text),
     "upstream said:\n" \o Fenced("'''json", JsonDocs[1].text)}

ErrorStatuses == {404, 500, 503}

\* The answers with status 200: a response text, no "response" key, a body
\* that is no JSON, a body that is a JSON array.
OkResponses ==
    {Response(200, "", JObj([response |-> JStr(x)])) :
         x \in {"", "Sure!", Fenced("'''json", JsonDocs[1].text)}}
        \cup {Response(200, "", JObj([done |-> JStr("true")])),
              Response(200, "", JsonDecodeError),
              Response(200, "", JArr(<<>>))}

HttpOutcomes ==
    {Response(c, x, JsonDecodeError) : c \in ErrorStatuses, x \in ErrorTexts}
        \cup {Throws(x) : x \in ErrorTexts}
        \cup OkResponses

\* A call of generate.
Generate ==
    /\ response_text = "" /\ ~extraction.called
    /\ response_text' = generate(http)
    /\ UNCHANGED <<http, extraction, extracted>>
    /\ UNCHANGED <<classifierVars, mergeVars, configVars, orchestratorVars,
                   agentVars, toolVars, frontVars>>

\* A call of generate_with_tools: generate, then the extraction.
GenerateWithToolsCall ==
    /\ response_text = "" /\ ~extraction.called
    /\ response_text' = generate(http)
    /\ extraction' = generate_with_tools(generate(http))
    /\ UNCHANGED <<http, extracted>>
    /\ UNCHANGED <<classifierVars, mergeVars, configVars, orchestratorVars,
                   agentVars, toolVars, frontVars>>

GenerateNext == Generate \/ GenerateWithToolsCall

InitGenerate ==
    /\ http \in HttpOutcomes
    /\ ExtractorIdle /\ ClassifierIdle /\ MergeIdle /\ ConfigIdle
    /\ OrchestratorIdle /\ AgentIdle /\ ToolIdle /\ FrontIdle

SpecGenerate == InitGenerate /\ [][GenerateNext]_vars

(***************************************************************************)
(* Properties of the extraction (SpecExtractor).                           *)
(***************************************************************************)

\* The fenced blocks whose payload is an object with a tool_calls array of
\* one entry, and the completions that hold one such block and text.
OneCallBlocks ==
    {[open |-> "'''json", payload |-> JsonDocs[1].text],
     [open |-> "'''", payload |-> JsonDocs[2].text]}

WithOneBlock(b) ==
    {pre \o Fenced(b.open, b.payload) \o post :
        pre \in {"", "Sure!\n", "Sure!\nSure!\n"},
        post \in {"", "\nSure!", "\nSure!\nSure!"}}

\* C1: a completion with exactly one fenced block, whose payload is an
\* object with a tool_calls array of one entry, gives exactly one tool call,
\* with id call_0, and a content that holds neither the fence markers nor the
\* payload.
C1_RoundTrip ==
    \A b \in OneCallBlocks :
        (extraction.called /\ response_text \in WithOneBlock(b))
            => /\ Len(extraction.tool_calls) = 1
               /\ extraction.tool_calls[1].id = "call_0"
               /\ ~Contains(extraction.content, "'''")
               /\ ~Contains(extraction.content, b.payload)

\* The completion of the end-to-end example: text and the opening fence on
\* the first line, the payload on the second, the closing fence on the third.
C2Completion == "Sure! '''json\n" \o JsonDocs[1].text \o "\n'''"

\* C2 as stated: the example gives the tool call {call_0, search, {q: cats}}
\* and the content "Sure!".
C2_AsClaimed ==
    (extraction.called /\ response_text = C2Completion)
        => /\ extraction.tool_calls =
                  <<[id |-> "call_0", name |-> JStr("search"),
                     arguments |-> JObj([q |-> JStr("cats")])]>>
           /\ extraction.content = "Sure!"

\* C2, amended: the first line of the example is no fence line (the marker is
\* not alone on it), so the example gives no tool call and its content is the
\* whole completion.
C2_NoCallExtracted ==
    (extraction.called /\ response_text = C2Completion)
        => /\ extraction.tool_calls = <<>>
           /\ extraction.content = C2Completion

C2_Witness == extraction.called /\ response_text = C2Completion

(***************************************************************************)
(* Properties of the classifier (SpecClassifier).                          *)
(***************************************************************************)

\* C3: the mode is that of the last-checked category that matches: multi if
\* a creative keyword matches, else single if a calculation keyword matches,
\* else multi if a research keyword matches, else the default, auto.
C3_Precedence ==
    detected # "unset"
        => detected =
               IF AnyKeyword(creative_keywords, task) THEN "multi"
               ELSE IF AnyKeyword(calc_keywords, task) THEN "single"
               ELSE IF AnyKeyword(research_keywords, task) THEN "multi"
               ELSE "auto"

C3_Witness ==
    /\ detected = "multi"
    /\ AnyKeyword(research_keywords, task)
    /\ AnyKeyword(calc_keywords, task)
    /\ AnyKeyword(creative_keywords, task)

\* A keyword as a whole word of the text, whatever the case of the text: an
\* occurrence with no letter, digit or underscore right before or after it.
WholeWord(keyword, text) ==
    \E i \in 1..(Len(text) - Len(keyword) + 1) :
        /\ Lower(SubSeq(text, i, i + Len(keyword) - 1)) = keyword
        /\ (i = 1 \/ SubSeq(text, i - 1, i - 1) \notin WordChars)
        /\ \/ i + Len(keyword) > Len(text)
           \/ SubSeq(text, i + Len(keyword), i + Len(keyword)) \notin WordChars

Category(keywords, text) == \E k \in 1..Len(keywords) : WholeWord(keywords[k], text)

\* C4: a task of one category only gives multi (research), single
\* (calculation) or multi (creative); a task with no keyword as a whole word
\* gives auto; "calculate 2 + 2" gives single and "write a poem about autumn"
\* gives multi; the mode is always single, multi or auto.
C4_Mapping ==
    detected # "unset"
        => LET r == Category(research_keywords, task)
               c == Category(calc_keywords, task)
               w == Category(creative_keywords, task)
           IN /\ detected \in {"single", "multi", "auto"}
              /\ (r /\ ~c /\ ~w) => detected = "multi"
              /\ (c /\ ~r /\ ~w) => detected = "single"
              /\ (w /\ ~r /\ ~c) => detected = "multi"
              /\ (~r /\ ~c /\ ~w) => detected = "auto"
              /\ task = "calculate 2 + 2" => detected = "single"
              /\ task = "write a poem about autumn" => detected = "multi"

C4_Witness == task = "calculate 2 + 2" /\ detected = "single"

(***************************************************************************)
(* Properties of the configuration (SpecMerge, SpecConfig).                *)
(***************************************************************************)

\* r is the merge of the mappings d and o, key by key.
RECURSIVE MergeLaw(_, _, _)
MergeLaw(d, o, r) ==
    /\ IsMap(r)
    /\ DOMAIN r.map = DOMAIN d.map \cup DOMAIN o.map
    /\ \A k \in DOMAIN r.map :
           IF k \notin DOMAIN o.map THEN r.map[k] = d.map[k]
           ELSE IF k \notin DOMAIN d.map THEN r.map[k] = o.map[k]
           ELSE IF IsMap(d.map[k]) /\ IsMap(o.map[k])
                THEN MergeLaw(d.map[k], o.map[k], r.map[k])
           ELSE r.map[k] = o.map[k]

\* C5: the merge has the keys of both mappings; a key of default only keeps
\* its value, a key of override only takes override's; a key of both takes
\* the recursive merge when both values are mappings and override's value
\* otherwise.
C5_MergeLaw == merged # NotMerged => MergeLaw(default, override, merged)

C5_Witness ==
    /\ merged # NotMerged
    /\ \E k \in DOMAIN default.map \cap DOMAIN override.map :
           /\ IsMap(default.map[k]) /\ IsMap(override.map[k])
           /\ DOMAIN default.map[k].map \ DOMAIN override.map[k].map # {}
           /\ DOMAIN override.map[k].map \ DOMAIN default.map[k].map # {}
    /\ \E k \in DOMAIN default.map \cap DOMAIN override.map :
           IsMap(default.map[k]) /\ ~IsMap(override.map[k])

\* C6: when the file is missing, cannot be opened, is no valid YAML, or loads
\* to something that is no mapping, _load_config returns the default
\* configuration; it raises for no source.
C6_LoadNeverFatal ==
    config # NotLoaded
        => /\ ~IsRaised(config)
           /\ (source.kind # "loaded" \/ ~IsMap(source.value))
                  => config = default_config

C6_Witness == config # NotLoaded /\ source = Loaded(CNull)

(***************************************************************************)
(* Properties of the orchestrator (Spec).                                  *)
(***************************************************************************)

\* C7: get_task_history(limit), limit >= 0, returns the min(limit, n) most
\* recent of the n records, in the order of the history.
C7_MostRecent ==
    ret.op = "get_task_history"
        => LET limit == ret.arg[1]
               n == Len(task_history)
               k == IF limit < n THEN limit ELSE n
           IN ret.value = SubSeq(task_history, n - k + 1, n)

C9_AllAgentsListed ==
    ret.op = "list_agents"
        => /\ ret.value[1] = AgentEntry(primary_agent, TRUE)
           /\ \A i \in 2..Len(ret.value) : ~ret.value[i].primary
           /\ primary_agent.mode \in {CStr("multi"), CStr("auto")}
                  => Len(ret.value) >= 1 + Len(default_roles)

\* C10: execute_task always returns a result; nothing is raised to its
\* caller (a failing primary_agent.execute would show as a result of status
\* failed).
C10_NeverThrown == ret.op = "execute_task" => ~ret.raised

\* C11: the status of a task-history record is the outcome of its task:
\* completed only for a completed result, incomplete when the iteration
\* budget was exhausted, failed when the task failed; a result of status
\* incomplete or failed is never recorded as completed.
C11_StatusIsOutcome ==
    \A i \in 1..Len(task_history) :
        task_history[i].status = task_history[i].result.status

\* The mode the merged configuration gives: agent.mode, single when unset.
ConfiguredMode ==
    IF "agent" \in DOMAIN config.map /\ "mode" \in DOMAIN config.map["agent"].map
    THEN config.map["agent"].map["mode"].str
    ELSE "single"

\* C12: after an execute_task(task, mode) the agent was executed with, and
\* (when it returned) the last record stores, the mode given, or the
\* configured agent.mode when None was given; the classifier was never
\* called, and the mode is not what it would give for the task.
C12_ModeResolution ==
    /\ detected = "unset"
    /\ ret.op = "execute_task"
           => LET given == ret.arg[2]
                  used == IF given = "None" THEN ConfiguredMode ELSE given
              IN /\ ret.executed = <<ret.arg[1], used>>
                 /\ ~ret.raised => task_history[Len(task_history)].mode = used

C12_Witness ==
    /\ ret.op = "execute_task" /\ ret.arg[2] = "None" /\ ~ret.raised
    /\ task_history[Len(task_history)].mode = "single"
    /\ detect_task_type(ret.arg[1]) # "single"

\* Runs of up to MaxSegments lines that hold no JSON and no fence: empty
\* lines and plain text.
RECURSIVE PlainOf(_)
PlainOf(n) ==
    IF n = 1 THEN {"", "Sure!"}
    ELSE {p \o "\n" \o t : p \in {"", "Sure!"}, t \in PlainOf(n - 1)}

PlainRuns == UNION {PlainOf(n) : n \in 1..MaxSegments}

\* The completions whose only fenced block holds malformed JSON, with
\* nothing but such lines around it.
MalformedOnly ==
    {pre \o Fenced(open, "{bad") \o post :
        open \in {"'''json", "'''"},
        pre \in {""} \cup {p \o "\n" : p \in PlainRuns},
        post \in {""} \cup {"\n" \o p : p \in PlainRuns}}

\* C13: a completion whose only fenced block holds malformed JSON, and which
\* holds no other JSON, gives no tool call and, as content, the whole
\* completion without its leading and trailing white space.
C13_Tolerance ==
    (extraction.called /\ response_text \in MalformedOnly)
        => /\ extraction.tool_calls = <<>>
           /\ extraction.content = Strip(response_text)

C13_Witness ==
    /\ extraction.called
    /\ response_text = "\nSure!\n" \o Fenced("'''", "{bad")
    /\ extraction.content = "Sure!\n" \o Fenced("'''", "{bad")

\* Lines and closed blocks a completion is made of here, with the calls
\* (name, arguments) each is due to give: a malformed block and plain lines
\* give none, a well-formed block gives the entries of its tool_calls array.
BlockParts ==
    {[text |-> "", calls |-> <<>>],
     [text |-> "Sure!", calls |-> <<>>],
     [text |-> Fenced("'''", "{bad"), calls |-> <<>>],
     [text  |-> Fenced("'''json", JsonDocs[1].text),
      calls |-> <<[name |-> JStr("search"), arguments |-> JObj([q |-> JStr("cats")])]>>],
     [text  |-> Fenced("'''", JsonDocs[2].text),
      calls |-> <<[name |-> JStr(""), arguments |-> JObj(<<>>)]>>]}

\* The completions of n such parts, each with the calls due in block order.
RECURSIVE BlockCasesOf(_)
BlockCasesOf(n) ==
    IF n = 1 THEN BlockParts
    ELSE {[text |-> p.text \o "\n" \o c.text, calls |-> p.calls \o c.calls] :
              p \in BlockParts, c \in BlockCasesOf(n - 1)}

BlockCases == UNION {BlockCasesOf(n) : n \in 1..MaxSegments}

\* C14: in a completion of closed fenced blocks and plain lines, every
\* well-formed block with a tool_calls array gives its calls, in block order,
\* whatever malformed blocks stand before or after it; and for every
\* completion a result is returned (nothing is raised).
C14_PerPayloadRecovery ==
    extraction.called
        => /\ DOMAIN extraction = {"called", "content", "tool_calls"}
           /\ \A c \in BlockCases :
                  c.text = response_text
                      => /\ Len(extraction.tool_calls) = Len(c.calls)
                         /\ \A k \in 1..Len(c.calls) :
                                /\ extraction.tool_calls[k].name = c.calls[k].name
                                /\ extraction.tool_calls[k].arguments = c.calls[k].arguments

C14_Witness ==
    /\ extraction.called
    /\ response_text = Fenced("'''", "{bad") \o "\n"
                           \o Fenced("'''json", JsonDocs[1].text) \o "\n"
                           \o Fenced("'''", "{bad")
    /\ Len(extraction.tool_calls) = 1

\* C15: the k-th tool call returned for a completion (from 0) has id call_k,
\* the count running on from one payload to the next, so the ids are unique
\* and in extraction order; an entry without a name gets the empty string, an
\* entry without arguments an empty mapping.
C15_CallIds ==
    extraction.called
        => /\ \A k \in 1..Len(extraction.tool_calls) :
                  extraction.tool_calls[k].id = "call_" \o ToString(k - 1)
           /\ \A j, k \in 1..Len(extraction.tool_calls) :
                  j # k => extraction.tool_calls[j].id # extraction.tool_calls[k].id
           /\ response_text = Fenced("'''", JsonDocs[2].text)
                  => extraction.tool_calls =
                         <<[id |-> "call_0", name |-> JStr(""), arguments |-> JObj(<<>>)]>>
           /\ response_text = Fenced("'''json", JsonDocs[3].text)
                  => extraction.tool_calls[1] =
                         [id |-> "call_0", name |-> JStr("a"), arguments |-> JObj(<<>>)]

C15_Witness ==
    /\ extraction.called
    /\ response_text = Fenced("'''json", JsonDocs[1].text) \o "\n"
                           \o Fenced("'''", JsonDocs[2].text)
    /\ Len(extraction.tool_calls) = 2
    /\ extraction.tool_calls[2].id = "call_1"

\* The first text of a non-empty sequence that json.loads accepts.
FirstParsed(texts) ==
    texts[Min({i \in 1..Len(texts) : ~IsError(JsonLoads(texts[i]))})]

\* What the three strategies recover from the response, each on its own.
WholeParses == ~IsError(JsonLoads(response_text))
SomeLineParses == \E i \in 1..Len(BracedLines(response_text)) :
                      ~IsError(JsonLoads(BracedLines(response_text)[i]))
SomeBlockParses == \E i \in 1..Len(FencedBlocks(response_text)) :
                       ~IsError(JsonLoads(FencedBlocks(response_text)[i]))

\* The order of the strategies of extract_json.
StrategyOrder ==
    /\ WholeParses => extracted.value = JsonLoads(response_text)
    /\ (~WholeParses /\ SomeLineParses)
           => extracted.value = JsonLoads(FirstParsed(BracedLines(response_text)))
    /\ (~WholeParses /\ ~SomeLineParses /\ SomeBlockParses)
           => extracted.value = JsonLoads(FirstParsed(FencedBlocks(response_text)))
    /\ response_text = Fenced("'''json", JsonDocs[5].text) \o "\n" \o JsonDocs[1].text
           => extracted.value = JsonDocs[1].value
    /\ response_text = "Sure!\n" \o Fenced("'''json", JsonDocs[5].text)
           => extracted.value = JsonDocs[5].value

\* C16 as stated: extract_json returns what the first of the three
\* strategies recovers (whole response, first braced line that parses, first
\* closed fenced block that parses) and fails with a parse error when none
\* recovers JSON.
C16_AsClaimed ==
    extracted.called
        => /\ StrategyOrder
           /\ (~WholeParses /\ ~SomeLineParses /\ ~SomeBlockParses) => extracted.raised

\* C16, amended: the same order; when no strategy recovers JSON the call
\* does not fail: it returns the mapping {"error": "Failed to parse JSON
\* response"}.
C16_ThreeStrategies ==
    extracted.called
        => /\ StrategyOrder
           /\ ~extracted.raised
           /\ (~WholeParses /\ ~SomeLineParses /\ ~SomeBlockParses)
                  => extracted.value = FailedToParse

C16_Witness ==
    /\ extracted.called
    /\ response_text = Fenced("'''json", JsonDocs[5].text) \o "\n" \o JsonDocs[1].text
    /\ extracted.value = JsonDocs[1].value

\* The value of a key of a configuration mapping, or dflt when absent.
Configured(block, key, dflt) ==
    IF key \in DOMAIN block.map THEN block.map[key] ELSE dflt

\* C17: when the configured mode is multi or auto, every configured role the
\* primary agent has ends construction with name, max_iterations and tools
\* taken from its own block of the configuration where the block sets them,
\* and from the role default (name "<role>-agent", the primary agent's
\* max_iterations, tools.enabled) otherwise; when the mode is single the
\* primary agent is as HybridAgent built it.
C17_RoleConfiguration ==
    LET specialized == Configured(config, "specialized_agents", CMap(<<>>))
        roles == Configured(specialized, "roles", CList(default_roles)).list
        enabled == Configured(Configured(config, "tools", CMap(<<>>)), "enabled", CList(<<>>))
    IN /\ ConfiguredMode \in {"multi", "auto"}
           => \A r \in RangeOf(roles) \cap DOMAIN primary_agent.specialized_agents :
                  LET block == Configured(specialized, r, CMap(<<>>))
                      agent == primary_agent.specialized_agents[r]
                  IN /\ agent.name = Configured(block, "name", CStr(r \o "-agent"))
                     /\ agent.max_iterations =
                            Configured(block, "max_iterations", primary_agent.max_iterations)
                     /\ agent.tools = Configured(block, "tools", enabled)
       /\ ConfiguredMode = "single"
           => primary_agent =
                  HybridAgent(primary_agent.name, primary_agent.max_iterations,
                              primary_agent.tools, primary_agent.mode,
                              primary_agent.complexity_threshold)

C17_Witness ==
    /\ ConfiguredMode = "auto"
    /\ primary_agent.specialized_agents["critic"].name = CStr("critic-agent")
    /\ primary_agent.specialized_agents["critic"].max_iterations = CInt(3)
    /\ primary_agent.specialized_agents["critic"].tools = CList(<<"search">>)
    /\ primary_agent.specialized_agents["planner"].name = CStr("planner")
    /\ ret.op = "list_agents"

\* The roles the configuration names (the four default roles when it names
\* none).
ConfiguredRoles ==
    RangeOf(Configured(Configured(config, "specialized_agents", CMap(<<>>)),
                       "roles", CList(default_roles)).list)

\* C18: the primary agent is the one made at construction: no call
\* (execute_task with any mode, list_agents, get_task_history,
\* get_last_result) replaces it, changes the registry, or adds, removes or
\* remakes a specialized agent; and a configured role the primary agent did
\* not have is skipped, not created.
C18_AgentLifecycle ==
    /\ [](\A r \in ConfiguredRoles :
              r \in DOMAIN primary_agent.specialized_agents
                  => r \in RangeOf(default_roles) /\ ConfiguredMode # "single")
    /\ [][primary_agent' = primary_agent /\ agents' = agents]_vars

C18_Witness ==
    /\ "ghost" \in ConfiguredRoles
    /\ "ghost" \notin DOMAIN primary_agent.specialized_agents
    /\ "critic" \in DOMAIN primary_agent.specialized_agents
    /\ ret.op = "execute_task" /\ ~ret.raised /\ ret.arg[2] = "multi"
    /\ Len(task_history) >= 1

C20_LoopTermination ==
    /\ [](/\ run.iteration <= run.max_iterations
          /\ run.iteration = Len(run.extracted_calls)
          /\ run.state = "DONE" =>
                 run.status =
                     IF \E i \in DOMAIN run.extracted_calls : run.extracted_calls[i] = 0
                     THEN "completed" ELSE "incomplete")
    /\ (run.state = "ITERATING") ~> (run.state = "DONE")

C20_Witness ==
    /\ run.state = "DONE"
    /\ run.status = "incomplete"
    /\ run.max_iterations = 3
    /\ run.iteration = 3
    /\ \A i \in DOMAIN run.extracted_calls : run.extracted_calls[i] > 0
    /\ run.memory = [id \in {"call_0", "call_1"} |-> "error"]

(***************************************************************************)
(* Properties of DirectResponseTool (SpecTool).                            *)
(***************************************************************************)

\* The prompt _execute works on, when it is a str.
PromptText == CGet(parameters, "prompt", CStr("")).str

HasStrPrompt == DOMAIN CGet(parameters, "prompt", CStr("")) = {"str"}

\* For a prompt that is a str (or absent), _execute returns a ToolResult:
\* success is false when no creative keyword is a whole word of the prompt,
\* and true with data.content set otherwise.
C21_OnStrings ==
    (tool_result.called /\ HasStrPrompt)
        => /\ tool_result.raised = ""
           /\ tool_result.value.success = Category(tool_creative_keywords, PromptText)
           /\ tool_result.value.success
                  => /\ IsMap(tool_result.value.data)
                     /\ "content" \in DOMAIN tool_result.value.data.map
           /\ ~tool_result.value.success => tool_result.value.data = CNull

\* C21: for every parameters mapping, whatever the value under "prompt",
\* _execute returns a ToolResult and does not raise.
C21_AlwaysAResult == tool_result.called => tool_result.raised = ""

(***************************************************************************)
(* Properties of the orchestrator's calls, continued (Spec).               *)
(***************************************************************************)

\* C22: execute_task gives the agent the caller's task text as it is, also
\* when an easter-egg keyword is a word of it; a call that returns, returns
\* the agent's result, and that result is last_result and the result of the
\* last history record; get_last_result() returns it afterwards.
C22_PassThrough ==
    /\ []((ret.op = "get_last_result" /\ task_history # <<>>)
              => ret.value = task_history[Len(task_history)].result)
    /\ [][\A t \in Tasks, mode \in ModeArgs, outcome \in AgentOutcomes :
              ExecuteTask(t, mode, outcome)
                  => /\ ret'.executed[1] = t
                     /\ outcome # Raises
                            => /\ ret'.value = outcome
                               /\ last_result' = outcome
                               /\ task_history'[Len(task_history')].result = outcome]_vars

C22_Witness ==
    /\ ret.op = "get_last_result"
    /\ ret.value = [answer |-> "done", status |-> "incomplete"]
    /\ Len(task_history) = 2
    /\ task_history[1].result = [answer |-> "done", status |-> "completed"]
    /\ task_history[2].task = "status report"
    /\ display_task(task_history[2].task) # task_history[2].task

(***************************************************************************)
(* Properties of the extraction, continued (SpecExtractor).                *)
(***************************************************************************)

\* The positions of the fence lines among the lines of a text.
FenceLines(text) ==
    LET lines == SplitLines(text)
    IN {i \in 1..Len(lines) : IsFenceLine(lines[i])}

\* The k-th fence line of a text.
RECURSIVE NthFence(_, _)
NthFence(fences, k) ==
    IF k = 1 THEN Min(fences) ELSE NthFence(fences \ {Min(fences)}, k - 1)

\* Whether the lines between the fence lines a and b hold a JSON value.
RegionParses(text, a, b) ==
    LET lines == SplitLines(text)
        inner == {i \in 1..Len(lines) : a < i /\ i < b}
    IN \E d \in 1..Len(JsonDocs) :
           LET k == SplitLines(JsonDocs[d].text)
           IN /\ Cardinality(inner) >= Len(k)
              /\ \E lo \in inner :
                     /\ \A j \in 1..Len(k) : lo + j - 1 \in inner
                                              /\ Strip(lines[lo + j - 1]) = Strip(k[j])
                     /\ \A i \in inner : (i < lo \/ i >= lo + Len(k)) => Strip(lines[i]) = ""

C24_ForwardedModes ==
    /\ cmd # <<>> => /\ cmd[4] = "--mode"
                     /\ cmd[5] \in front_mode_choices
                     /\ args.mode # "None" => cmd[5] = args.mode
    /\ started.called
           => /\ started.rejected <=> cmd[5] = "auto"
              /\ ~started.rejected => /\ started.mode = cmd[5]
                                      /\ started.task = cmd[Len(cmd)]

\* C24: every mode jafs.py puts after --mode is one jafs.main accepts: no
\* command is rejected when its arguments are parsed.
C24_ModeAccepted == started.called => ~started.rejected

\* C25: a call of execute_task in which execute raises leaves config,
\* agents, primary_agent, last_result and task_history as they were; a call
\* that returns adds one record; no other call changes the history.  So the
\* history has one record for each call that returned.
C25_RaiseLeavesState ==
    [][IF ret'.op = "execute_task" /\ ~ret'.raised
       THEN /\ Len(task_history') = Len(task_history) + 1
            /\ SubSeq(task_history', 1, Len(task_history)) = task_history
       ELSE /\ task_history' = task_history
            /\ last_result' = last_result
            /\ agents' = agents
            /\ primary_agent' = primary_agent
            /\ config' = config]_vars

C25_Witness ==
    /\ ret.op = "execute_task"
    /\ ret.raised
    /\ Len(task_history) = 1
    /\ last_result = task_history[1].result

\* The number of tool calls the payloads are due to give when each gives all
\* the entries of its tool_calls array or none: all when every entry is a
\* mapping, none when an entry is not.
RECURSIVE AtomicTotal(_, _)
AtomicTotal(json_blocks, i) ==
    IF i > Len(json_blocks) THEN 0
    ELSE LET data == JsonLoads(json_blocks[i])
             entries == IF ~IsError(data) /\ IsObj(data)
                           /\ "tool_calls" \in DOMAIN data.obj
                           /\ IsArr(data.obj["tool_calls"])
                        THEN data.obj["tool_calls"].arr
                        ELSE <<>>
             whole == \A k \in 1..Len(entries) : IsObj(entries[k])
         IN (IF whole THEN Len(entries) ELSE 0) + AtomicTotal(json_blocks, i + 1)

\* C26: each payload gives either a ToolCall for every entry of its
\* tool_calls array or no ToolCall at all: no payload leaves the calls of
\* the entries before one that is not a mapping.
C26_AtomicPayload ==
    extraction.called
        => Len(extraction.tool_calls) = AtomicTotal(JsonBlocks(response_text), 1)

(***************************************************************************)
(* Properties of generate (SpecGenerate).                                  *)
(***************************************************************************)

\* The HTTP call answered with another status than 200, or raised.
TransportFailed ==
    \/ http.kind = "throws"
    \/ http.kind = "response" /\ http.status_code # 200

\* A transport failure gives a text that begins with "Error: ", and, when
\* the text of the failure has fewer than two fence lines, generate_with_tools
\* gives the text, stripped, as content and no tool call.
C27_ErrorsWithoutFences ==
    (TransportFailed /\ response_text # "")
        => /\ OccursAt(response_text, "Error: ", 1)
           /\ (extraction.called /\ Cardinality(FenceLines(response_text)) < 2)
                  => /\ extraction.content = Strip(response_text)
                     /\ extraction.tool_calls = <<>>

\* C27: after a transport failure generate returns a text that begins with
\* "Error: ", and generate_with_tools returns that text, stripped, as content
\* with no tool call.
C27_ErrorsAsValues ==
    (TransportFailed /\ extraction.called)
        => /\ OccursAt(response_text, "Error: ", 1)
           /\ extraction.content = Strip(response_text)
           /\ extraction.tool_calls = <<>>

====
